---- MODULE Spec2Model ----
(***************************************************************************)
(* Model of the comment-enrichment pipeline of the NPS dashboard server:   *)
(*   - AIProcessingTracker      (packages/server/src/ai-processing-status) *)
(*   - processCommentsWithAI and the HTTP routes that trigger it           *)
(*                              (packages/server/src/routes.ts)            *)
(*   - the LocalDB table of responses (packages/server/src/local-db.ts)    *)
(*   - the OllamaLLM classification client (ollama-llm.ts) and the routes  *)
(*     that call it directly                                               *)
(*   - LocalLLM: analyzeSentiment, extractTopics, analyzeComment and       *)
(*     analyzeBatch (packages/server/src/local-llm.ts)                     *)
(*   - the NPS statistics and the response group (routes.ts, local-db.ts,  *)
(*     pendo.ts)                                                           *)
(*   - the upload sessions of the Hono application (local-llm.ts)          *)
(*                                                                         *)
(* The server is a single Node.js process. A handler runs without          *)
(* interruption until it awaits; every action below is one such            *)
(* uninterrupted stretch of code.                                          *)
(***************************************************************************)
EXTENDS Integers, Sequences, FiniteSets, TLC

\* ------------------------------------------------------------------------
\* Bounds of the model
\* ------------------------------------------------------------------------
\* rows ever inserted into nps_responses (ids are AUTOINCREMENT, never reused)
MaxRows == 2
\* invocations of processCommentsWithAI that reach startProcessing
MaxRuns == 2
\* elements of the comments array of one POST /api/analyze-batch
MaxBatch == 2
\* instants of the clock while upload sessions are followed
MaxClock == 4

\* ------------------------------------------------------------------------
\* Values
\* ------------------------------------------------------------------------
\* SQL NULL / JavaScript null in a text column
Null == "<null>"
\* an optional request field that is absent (JavaScript undefined)
Undefined == "<undefined>"
\* confidences are counted in tenths; a NULL or absent number is -1
NoNumber == -1
\* sentiment_confidence written by the orchestrator (0.8), in tenths
DefaultConfidence == 8

\* the ratings of the survey scale
Ratings == 0..10

\* the dates of the model: the day of the request, and a day more than a
\* week before it
Today == "today"
LastMonth == "last month"

\* String.prototype.trim on the comments of the model
Trim(s) == IF s = " " THEN "" ELSE s

\* JavaScript truthiness of a string-or-null value
Truthy(s) == s \notin {"", Null, Undefined}

\* JavaScript  a || b  on strings
OrElse(a, b) == IF Truthy(a) THEN a ELSE b

\* JavaScript  a || b  on numbers (0 and undefined are falsy)
OrElseNum(a, b) == IF a = 0 \/ a = NoNumber THEN b ELSE a


VARIABLES
  store,    \* table nps_responses joined with topic_mentions: id -> row
  nextId,   \* next AUTOINCREMENT id of nps_responses
  tracker,  \* aiTracker.status
  clock,    \* wall clock read by new Date()
  runs,     \* the invocations of processCommentsWithAI that started a loop
  uploadSessions,  \* the Map of upload previews: session id -> session
  reply     \* what the last step answered, when it served /api/ai-status or
            \* /api/process-ai (the answers of the other routes are not kept)

vars == <<store, nextId, tracker, clock, runs, uploadSessions, reply>>

\* no answer kept
NoReply == [route |-> "none", status |-> 0]

\* ------------------------------------------------------------------------
\* AIProcessingTracker
\* ------------------------------------------------------------------------
\* a null Date
NoTime == 0

InitialStatus ==
  [total |-> 0, processed |-> 0, inProgress |-> FALSE,
   startTime |-> NoTime, lastUpdate |-> NoTime]

\* startProcessing that forgets to reset the count of processed rows
startProcessing_KeepsProcessed(status, totalCount, now) ==
  [status EXCEPT !.total = totalCount, !.inProgress = TRUE,
                 !.startTime = now, !.lastUpdate = now]

\* a startProcessing that leaves the inProgress flag for later
startProcessing_FlagLater(status, totalCount, now) ==
  [total |-> totalCount, processed |-> 0, inProgress |-> status.inProgress,
   startTime |-> now, lastUpdate |-> now]

startProcessing(status, totalCount, now) ==
  [total |-> totalCount, processed |-> 0, inProgress |-> TRUE,
   startTime |-> now, lastUpdate |-> now]

incrementProcessed(status, now) ==
  [status EXCEPT !.processed = @ + 1, !.lastUpdate = now]

\* completeProcessing that forgets to clear the flag
completeProcessing_KeepsFlag(status, now) ==
  [status EXCEPT !.lastUpdate = now]

completeProcessing(status, now) ==
  [status EXCEPT !.inProgress = FALSE, !.lastUpdate = now]

getStatus(status) == status

\* isProcessing that derives "busy" from the counters instead of the flag
isProcessing_FromCounters(status) == status.processed < status.total

isProcessing(status) == status.inProgress

\* Math.round(x / y * 100) for x, y >= 0: halves round up
RoundPercent(x, y) == (200 * x + y) \div (2 * y)

getProgress(status) ==
  IF status.total = 0 THEN 0 ELSE RoundPercent(status.processed, status.total)

\* ------------------------------------------------------------------------
\* LocalDB
\* ------------------------------------------------------------------------
\* the static methods class LocalDB declares
LocalDBMethods ==
  {"clearAll", "insertResponse", "insertTopicMentions", "getResponses",
   "getNPSStats", "getSentimentDistribution", "getTopicDistribution",
   "logSync", "getSyncHistory", "backupToCSV", "close"}

\* calling LocalDB.<m>(...) raises a TypeError when the class has no such method
IsCallable(m) == m \in LocalDBMethods

EmptyStore == [i \in {} |-> 0]

clearAll(st) == EmptyStore

\* INSERT INTO nps_responses: absent and empty values are stored as NULL;
\* the new row has no topic_mentions. The statement names no response_group
\* column: a response_group in data is not stored.
insertResponse(st, id, data) ==
  [i \in DOMAIN st \cup {id} |->
     IF i = id
     THEN [rating |-> data.rating,
           date |-> data.date,
           comment |-> OrElse(data.comment, Null),
           sentiment |-> OrElse(data.sentiment, Null),
           sentiment_confidence |-> OrElseNum(data.sentiment_confidence, NoNumber),
           topics |-> <<>>]
     ELSE st[i]]

RECURSIVE Ascending(_)
Ascending(S) ==
  IF S = {} THEN <<>>
  ELSE LET m == CHOOSE x \in S : \A y \in S : x <= y
       IN  <<m>> \o Ascending(S \ {m})

\* SELECT r.*, GROUP_CONCAT(t.topic) ... GROUP BY r.id ORDER BY r.date DESC
\* (rows of one date come in id order)
getResponses(st) ==
  LET ids == Ascending({i \in DOMAIN st : st[i].date = Today})
               \o Ascending({i \in DOMAIN st : st[i].date # Today})
  IN  [k \in 1..Len(ids) |->
         [id |-> ids[k], rating |-> st[ids[k]].rating, date |-> st[ids[k]].date,
          comment |-> st[ids[k]].comment,
          sentiment |-> st[ids[k]].sentiment,
          sentiment_confidence |-> st[ids[k]].sentiment_confidence,
          topics |-> st[ids[k]].topics]]

\* LocalDB.updateResponse(id, fields) as routes.ts calls it
updateResponse(st, id, fields) ==
  IF IsCallable("updateResponse")
  THEN [threw |-> FALSE,
        store |-> [i \in DOMAIN st |->
                     IF i = id
                     THEN [st[i] EXCEPT !.sentiment = fields.sentiment,
                                        !.sentiment_confidence = fields.sentiment_confidence,
                                        !.topics = fields.topics]
                     ELSE st[i]]]
  ELSE [threw |-> TRUE, store |-> st]

\* ------------------------------------------------------------------------
\* OllamaLLM (ollama-llm.ts): the reply of the inference endpoint is an input
\* ------------------------------------------------------------------------
\* What POST /api/generate can give for a sentiment prompt:
\*   transport "error": fetch rejects or the status is not 2xx;
\*   json "none": no {...} in the text; "malformed": {...} that is no JSON;
\*   "object": a JSON object whose sentiment field is `sentiment`
SentimentReplies ==
  {[transport |-> "error", json |-> "none", sentiment |-> Undefined],
   [transport |-> "ok", json |-> "none", sentiment |-> Undefined],
   [transport |-> "ok", json |-> "malformed", sentiment |-> Undefined],
   [transport |-> "ok", json |-> "object", sentiment |-> Undefined],
   [transport |-> "ok", json |-> "object", sentiment |-> "positive"],
   [transport |-> "ok", json |-> "object", sentiment |-> "negative"],
   [transport |-> "ok", json |-> "object", sentiment |-> "mixed"]}

\* the sentiment replies the runs of the orchestrator are given
RunSentimentReplies ==
  {r \in SentimentReplies :
     r.transport = "error" \/ r.sentiment = "positive"}

\* What POST /api/generate can give for a topics prompt
TopicReplies ==
  {[transport |-> "error", json |-> "none", topics |-> <<>>],
   [transport |-> "ok", json |-> "none", topics |-> <<>>],
   [transport |-> "ok", json |-> "malformed", topics |-> <<>>],
   [transport |-> "ok", json |-> "object",
    topics |-> <<[topic |-> "fees", confidence |-> 9]>>]}

\* a request value that is truthy and no string (a number, an array, an
\* object): it has no trim method
NotAString == "<object>"

IsString(c) == c \notin {Null, Undefined, NotAString}

\* the guard  !comment || comment.trim().length === 0  of both operations:
\* "empty", "text", or "throws" (a TypeError, raised outside the try block)
CommentGuard(comment) ==
  IF ~Truthy(comment) THEN "empty"
  ELSE IF ~IsString(comment) THEN "throws"
  ELSE IF Trim(comment) = "" THEN "empty"
  ELSE "text"

\* OllamaLLM.generate: throws on a transport error, else gives the reply text
generate(r) == [threw |-> r.transport = "error", response |-> r]

\* The results below carry two observations next to the fields of the
\* returned object: threw (the promise was rejected) and calls (the number of
\* requests sent to the inference endpoint).
Rejected == [threw |-> TRUE, calls |-> 0]

\* a catch block that passes the error on
analyzeSentimentCatch_Rethrows(comment) == [threw |-> TRUE, calls |-> 1]

\* the catch block of analyzeSentiment
analyzeSentimentCatch(comment) ==
  [threw |-> FALSE, calls |-> 1,
   sentiment |-> "neutral", explanation |-> "Analysis failed"]

analyzeSentiment(comment, r) ==
  CASE CommentGuard(comment) = "empty" ->
         [threw |-> FALSE, calls |-> 0,
          sentiment |-> "neutral", explanation |-> "Empty comment"]
    [] CommentGuard(comment) = "throws" -> Rejected
    [] OTHER ->
         LET g == generate(r)
         IN  IF g.threw \/ g.response.json = "malformed"
             THEN analyzeSentimentCatch(comment)
             ELSE IF g.response.json = "object"
             THEN [threw |-> FALSE, calls |-> 1,
                   sentiment |-> OrElse(g.response.sentiment, "neutral"),
                   explanation |-> "Analysis completed"]
             ELSE [threw |-> FALSE, calls |-> 1,
                   sentiment |-> "neutral",
                   explanation |-> "Could not parse response"]

\* a catch block that passes the error on
extractTopicsCatch_Rethrows(comment) == [threw |-> TRUE, calls |-> 1]

\* the catch block of extractTopics
extractTopicsCatch(comment) ==
  [threw |-> FALSE, calls |-> 1,
   topics |-> <<[topic |-> "general", confidence |-> 1]>>]

\* topic confidences are in tenths
extractTopics(comment, r) ==
  CASE CommentGuard(comment) = "empty" ->
         [threw |-> FALSE, calls |-> 0,
          topics |-> <<[topic |-> "general", confidence |-> 10]>>]
    [] CommentGuard(comment) = "throws" -> Rejected
    [] OTHER ->
         LET g == generate(r)
         IN  IF g.threw \/ g.response.json = "malformed"
             THEN extractTopicsCatch(comment)
             ELSE IF g.response.json = "object"
             THEN [threw |-> FALSE, calls |-> 1, topics |-> g.response.topics]
             ELSE [threw |-> FALSE, calls |-> 1,
                   topics |-> <<[topic |-> "general", confidence |-> 5]>>]

\* the fields of a returned result, without the observations
SentimentResult(res) ==
  [sentiment |-> res.sentiment, explanation |-> res.explanation]

TopicResult(res) == [topics |-> res.topics]

\* OllamaLLM.analyzeComment: Promise.all over both operations (both are
\* started before either is awaited), one catch for the pair
analyzeComment(comment, r1, r2) ==
  LET sentiment == analyzeSentiment(comment, r1)
      topics == extractTopics(comment, r2)
  IN  IF sentiment.threw \/ topics.threw
      THEN [sentiment |-> [sentiment |-> "neutral", explanation |-> "Error"],
            topics |-> [topics |-> <<>>],
            calls |-> sentiment.calls + topics.calls]
      ELSE [sentiment |-> SentimentResult(sentiment),
            topics |-> TopicResult(topics),
            calls |-> sentiment.calls + topics.calls]

\* ------------------------------------------------------------------------
\* LocalLLM (local-llm.ts): exported as localLLM; no route of routes.ts uses it
\* ------------------------------------------------------------------------
\* the keyword lists of the fallback of LocalLLM.analyzeSentiment
positiveWords ==
  {"good", "great", "excellent", "love", "amazing", "perfect", "easy", "fast",
   "helpful"}

negativeWords ==
  {"bad", "terrible", "awful", "hate", "slow", "crash", "error", "problem",
   "issue", "expensive"}

\* lowerComment.includes(word), for the comments of the model
Includes(comment, word) ==
  \/ comment = "slow app" /\ word = "slow"
  \/ comment = "great app" /\ word = "great"
  \/ comment = "easy but slow" /\ word \in {"easy", "slow"}
  \/ comment = "This service is amazing!" /\ word \in {"amazing", "service"}

\* What POST /api/generate can give LocalLLM for a sentiment prompt: as
\* SentimentReplies, with the confidence field of the JSON object in tenths
\* (NoNumber: absent)
LocalSentimentReplies ==
  {[transport |-> "error", json |-> "none", sentiment |-> Undefined, confidence |-> NoNumber],
   [transport |-> "ok", json |-> "none", sentiment |-> Undefined, confidence |-> NoNumber],
   [transport |-> "ok", json |-> "malformed", sentiment |-> Undefined, confidence |-> NoNumber],
   [transport |-> "ok", json |-> "object", sentiment |-> Undefined, confidence |-> 9],
   [transport |-> "ok", json |-> "object", sentiment |-> "negative", confidence |-> 15],
   [transport |-> "ok", json |-> "object", sentiment |-> "mixed", confidence |-> NoNumber]}

\* the comments localLLM.analyzeSentiment is given
LocalComments == {"", " ", "fine", "slow app", "great app", "easy but slow"}

\* Math.min(Math.max(x, lo), hi)
Clamp(x, lo, hi) == IF x < lo THEN lo ELSE IF x > hi THEN hi ELSE x

\* the keyword fallback of LocalLLM.analyzeSentiment
KeywordFallback(comment) ==
  LET positiveCount == Cardinality({w \in positiveWords : Includes(comment, w)})
      negativeCount == Cardinality({w \in negativeWords : Includes(comment, w)})
  IN  IF positiveCount > negativeCount
      THEN [threw |-> FALSE, calls |-> 1, sentiment |-> "positive", confidence |-> 6]
      ELSE IF negativeCount > positiveCount
      THEN [threw |-> FALSE, calls |-> 1, sentiment |-> "negative", confidence |-> 6]
      ELSE [threw |-> FALSE, calls |-> 1, sentiment |-> "neutral", confidence |-> 5]

\* LocalLLM.analyzeSentiment; confidences are in tenths
LocalLLM_analyzeSentiment(comment, r) ==
  CASE CommentGuard(comment) = "empty" ->
         [threw |-> FALSE, calls |-> 0, sentiment |-> "neutral", confidence |-> 0,
          explanation |-> "Empty comment"]
    [] CommentGuard(comment) = "throws" -> Rejected
    [] OTHER ->
         LET g == generate(r)
         IN  IF g.threw \/ g.response.json = "malformed"
             THEN [threw |-> FALSE, calls |-> 1, sentiment |-> "neutral",
                   confidence |-> 3]
             ELSE IF g.response.json = "object"
             THEN [threw |-> FALSE, calls |-> 1,
                   sentiment |-> g.response.sentiment,
                   confidence |-> Clamp(OrElseNum(g.response.confidence, 5), 0, 10)]
             ELSE KeywordFallback(comment)

\* the keyword lists of the fallback of LocalLLM.extractTopics, in the order
\* of the object literal
topicKeywords ==
  <<[topic |-> "App Performance",
     keywords |-> {"slow", "crash", "bug", "loading", "freeze", "error", "glitch"}],
    [topic |-> "High Trading Fees",
     keywords |-> {"fee", "cost", "expensive", "charge", "price"}],
    [topic |-> "Customer Support",
     keywords |-> {"support", "help", "service", "contact", "assistance"}],
    [topic |-> "Ease of Use",
     keywords |-> {"easy", "simple", "intuitive", "user-friendly", "navigation"}],
    [topic |-> "Account Problems",
     keywords |-> {"login", "account", "access", "password", "locked"}]>>

\* the keyword fallback of LocalLLM.extractTopics: a topic for each list with
\* a match, confidence min(matches * 0.3, 0.8) in tenths, at most three
TopicFallback(comment) ==
  LET matches(k) == Cardinality({w \in topicKeywords[k].keywords : Includes(comment, w)})
      hit(k) == matches(k) > 0
      all == [k \in 1..Len(topicKeywords) |->
                [topic |-> topicKeywords[k].topic,
                 confidence |-> IF 3 * matches(k) < 8 THEN 3 * matches(k) ELSE 8,
                 hit |-> hit(k)]]
      topics == SelectSeq(all, LAMBDA t : t.hit)
  IN  [k \in 1..(IF Len(topics) < 3 THEN Len(topics) ELSE 3) |->
         [topic |-> topics[k].topic, confidence |-> topics[k].confidence]]

\* LocalLLM.extractTopics
LocalLLM_extractTopics(comment, r) ==
  CASE CommentGuard(comment) = "empty" ->
         [threw |-> FALSE, calls |-> 0, topics |-> <<>>]
    [] CommentGuard(comment) = "throws" -> Rejected
    [] OTHER ->
         LET g == generate(r)
         IN  IF g.threw \/ g.response.json = "malformed"
             THEN [threw |-> FALSE, calls |-> 1, topics |-> <<>>]
             ELSE IF g.response.json = "object"
             THEN [threw |-> FALSE, calls |-> 1,
                   topics |-> [k \in 1..Len(g.response.topics) |->
                                 [topic |-> g.response.topics[k].topic,
                                  confidence |->
                                    Clamp(OrElseNum(g.response.topics[k].confidence, 5),
                                          0, 10)]]]
             ELSE [threw |-> FALSE, calls |-> 1, topics |-> TopicFallback(comment)]

\* LocalLLM.analyzeComment: comment.substring(0, 50) in its first statement,
\* outside the try block, throws for a comment that is no string; the two
\* operations of the Promise.all do not reject for a string
LocalLLM_analyzeComment(comment, r1, r2) ==
  IF ~IsString(comment)
  THEN [threw |-> TRUE]
  ELSE LET sentiment == LocalLLM_analyzeSentiment(comment, r1)
           topics == LocalLLM_extractTopics(comment, r2)
       IN  IF sentiment.threw \/ topics.threw
           THEN [threw |-> FALSE,
                 sentiment |-> [sentiment |-> "neutral", confidence |-> 3],
                 topics |-> [topics |-> <<>>]]
           ELSE [threw |-> FALSE,
                 sentiment |-> [sentiment |-> sentiment.sentiment,
                                confidence |-> sentiment.confidence],
                 topics |-> [topics |-> topics.topics]]

\* The loop of LocalLLM.analyzeBatch from element i on. Each element carries,
\* next to id and comment, the inputs of its iteration: the replies r1, r2 of
\* the inference endpoint and progress, what the onProgress call of the
\* iteration does ("returns" or "throws"). hasProgress: a callback was
\* passed. Gives the returned array and one observation, progress: the
\* first arguments of the onProgress calls made, in order.
RECURSIVE LocalLLM_analyzeBatch(_, _, _, _, _)
LocalLLM_analyzeBatch(comments, hasProgress, i, results, progress) ==
  IF i > Len(comments)
  THEN [results |-> results, progress |-> progress]
  ELSE LET comment == comments[i]
           analysis == LocalLLM_analyzeComment(comment.comment, comment.r1, comment.r2)
           failed == [id |-> comment.id,
                      sentiment |-> [sentiment |-> "neutral", confidence |-> 3],
                      topics |-> [topics |-> <<>>]]
           pushed == Append(results, [id |-> comment.id,
                                      sentiment |-> analysis.sentiment,
                                      topics |-> analysis.topics])
       IN  IF analysis.threw
           THEN LocalLLM_analyzeBatch(comments, hasProgress, i + 1,
                                      Append(results, failed), progress)
           ELSE IF ~hasProgress
           THEN LocalLLM_analyzeBatch(comments, hasProgress, i + 1, pushed, progress)
           ELSE IF comment.progress = "throws"
           THEN LocalLLM_analyzeBatch(comments, hasProgress, i + 1,
                                      Append(pushed, failed), Append(progress, i))
           ELSE LocalLLM_analyzeBatch(comments, hasProgress, i + 1,
                                      pushed, Append(progress, i))

\* ------------------------------------------------------------------------
\* processCommentsWithAI (routes.ts)
\* ------------------------------------------------------------------------
\* the filter of commentsToProcess
NeedsProcessing(r) ==
  /\ Truthy(r.comment)
  /\ Trim(r.comment) # ""
  /\ (~Truthy(r.sentiment) \/ r.sentiment = "neutral")

commentsToProcess(st) == SelectSeq(getResponses(st), NeedsProcessing)

Active(r) == runs[r].pc # "done"

\* no sentimentResult yet
NoResult == [threw |-> FALSE, calls |-> 0,
             sentiment |-> Undefined, explanation |-> Undefined]

\* A record of one loop. rows is the array commentsToProcess the loop holds
\* (of each row object the fields the loop reads: id and comment),
\* idx the row it is at, pc the await it is suspended at:
\*   "sentiment" (analyzeSentiment), "topics" (extractTopics),
\*   "delay" (the 100 ms timer), "done" (the function returned).
\* The other fields observe the loop and are read by nothing in it:
\*   counted[k]  by how much the loop has advanced tracker.processed for row k
\*   writes[k]   how many times updateResponse stored row k's result
\*   matched[k]  whether the stored row then held the classifier's values
\*   overlapped  whether another loop was active at any time of this one
\*   scanNextId  the next AUTOINCREMENT id when the loop scanned the Store
\*   rescan      the loop started with the loop before it finished and no row
\*               inserted since that loop's scan
NewRun(rows, overlaps, nid, again) ==
  [rows |-> [k \in 1..Len(rows) |-> [id |-> rows[k].id, comment |-> rows[k].comment]],
   idx |-> 1, pc |-> "sentiment",
   sentimentResult |-> NoResult,
   counted |-> [k \in 1..Len(rows) |-> 0],
   writes |-> [k \in 1..Len(rows) |-> 0],
   matched |-> [k \in 1..Len(rows) |-> FALSE],
   overlapped |-> overlaps,
   scanNextId |-> nid,
   rescan |-> again]

\* processCommentsWithAI as a caller that awaited it would see it: run to
\* its end before the caller goes on
processCommentsWithAI_Awaited(st, nid, dbOk) ==
  LET todo == commentsToProcess(st)
      n == Len(todo)
  IN  IF ~dbOk \/ n = 0
      THEN [tracker |-> tracker, runs |-> runs, clock |-> clock]
      ELSE [tracker |-> [total |-> n, processed |-> n, inProgress |-> FALSE,
                         startTime |-> clock + 1, lastUpdate |-> clock + n + 2],
            runs |-> Append(runs,
                            [NewRun(todo, FALSE, nid, FALSE) EXCEPT
                               !.pc = "done", !.idx = n,
                               !.counted = [k \in 1..n |-> 1]]),
            clock |-> clock + n + 2]

\* processCommentsWithAI with the tracker started and completed over an
\* empty scan as well
processCommentsWithAI_StartsEmpty(st, nid, dbOk) ==
  LET todo == commentsToProcess(st)
      busy == \E r \in DOMAIN runs : Active(r)
  IN  IF ~dbOk
      THEN [tracker |-> tracker, runs |-> runs, clock |-> clock]
      ELSE IF Len(todo) = 0
      THEN [tracker |-> completeProcessing(startProcessing(tracker, 0, clock + 1),
                                           clock + 2),
            runs |-> runs, clock |-> clock + 2]
      ELSE [tracker |-> startProcessing(tracker, Len(todo), clock + 1),
            runs |-> Append([r \in DOMAIN runs |->
                               IF Active(r)
                               THEN [runs[r] EXCEPT !.overlapped = TRUE]
                               ELSE runs[r]],
                            NewRun(todo, busy, nid, FALSE)),
            clock |-> clock + 1]

\* The function from its entry to its first await (or its return), for a
\* Store st (next id nid) that answers (dbOk) or throws (~dbOk): the new
\* tracker, runs, clock.
processCommentsWithAI(st, nid, dbOk) ==
  LET todo == commentsToProcess(st)
      busy == \E r \in DOMAIN runs : Active(r)
      again == /\ runs # <<>>
               /\ ~busy
               /\ runs[Len(runs)].scanNextId = nid
  IN  IF ~dbOk \/ Len(todo) = 0
      THEN [tracker |-> tracker, runs |-> runs, clock |-> clock]
      ELSE [tracker |-> startProcessing(tracker, Len(todo), clock + 1),
            runs |-> Append([r \in DOMAIN runs |->
                               IF Active(r)
                               THEN [runs[r] EXCEPT !.overlapped = TRUE]
                               ELSE runs[r]],
                            NewRun(todo, busy, nid, again)),
            clock |-> clock + 1]

\* a catch block that does not count the failed row
CatchRow_NoIncrement(status, now) == [status EXCEPT !.lastUpdate = now]

\* a catch block that counts the failed row a second time
CatchRow_CountsTwice(status, now) ==
  incrementProcessed(incrementProcessed(status, now), now)

\* the catch block of one row
CatchRow(status, now) == incrementProcessed(status, now)

\* a loop that ends at the first row it has counted
NextIteration_Breaks(r, run, status, now) ==
  /\ runs' = [runs EXCEPT ![r] = [run EXCEPT !.pc = "done",
                                             !.sentimentResult = NoResult]]
  /\ tracker' = completeProcessing(status, now + 1)
  /\ clock' = now + 1

\* The loop after row run.idx was counted: the next row's analyzeSentiment
\* call, or completeProcessing after the last row.
NextIteration(r, run, status, now) ==
  IF run.idx < Len(run.rows)
  THEN /\ runs' = [runs EXCEPT ![r] = [run EXCEPT !.idx = @ + 1,
                                                  !.pc = "sentiment",
                                                  !.sentimentResult = NoResult]]
       /\ tracker' = status
       /\ clock' = now
  ELSE /\ runs' = [runs EXCEPT ![r] = [run EXCEPT !.pc = "done",
                                                  !.sentimentResult = NoResult]]
       /\ tracker' = completeProcessing(status, now + 1)
       /\ clock' = now + 1

\* The event loop resumes loop r at the await it is suspended at.
ResumeRun(r) ==
  /\ r \in DOMAIN runs
  /\ Active(r)
  /\ reply' = NoReply
  /\ UNCHANGED uploadSessions
  /\ LET run == runs[r]
         row == run.rows[run.idx]
     IN  CASE run.pc = "sentiment" ->
                \E reply1 \in RunSentimentReplies :
                  LET sentimentResult == analyzeSentiment(row.comment, reply1)
                      caught == CatchRow(tracker, clock + 1)
                  IN  IF sentimentResult.threw
                      THEN /\ NextIteration(r,
                                [run EXCEPT !.counted[run.idx] =
                                              @ + caught.processed - tracker.processed],
                                caught, clock + 1)
                           /\ UNCHANGED <<store, nextId>>
                      ELSE /\ runs' = [runs EXCEPT
                                         ![r].sentimentResult = sentimentResult,
                                         ![r].pc = "topics"]
                           /\ UNCHANGED <<store, nextId, tracker, clock>>
         [] run.pc = "topics" ->
                \E reply2 \in TopicReplies :
                  LET topicsResult == extractTopics(row.comment, reply2)
                      fields == [sentiment |-> OrElse(run.sentimentResult.sentiment, "neutral"),
                                 sentiment_confidence |-> DefaultConfidence,
                                 topics |-> topicsResult.topics]
                      w == updateResponse(store, row.id, fields)
                      caught == CatchRow(tracker, clock + 1)
                      counted == incrementProcessed(tracker, clock + 1)
                  IN  IF topicsResult.threw \/ w.threw
                      THEN /\ store' = store
                           /\ NextIteration(r,
                                [run EXCEPT !.counted[run.idx] =
                                              @ + caught.processed - tracker.processed],
                                caught, clock + 1)
                           /\ UNCHANGED nextId
                      ELSE /\ store' = w.store
                           /\ runs' = [runs EXCEPT ![r] =
                                 [run EXCEPT !.counted[run.idx] =
                                               @ + counted.processed - tracker.processed,
                                             !.writes[run.idx] = @ + 1,
                                             !.matched[run.idx] =
                                                /\ row.id \in DOMAIN w.store
                                                /\ w.store[row.id].sentiment = run.sentimentResult.sentiment
                                                /\ w.store[row.id].sentiment_confidence = DefaultConfidence
                                                /\ w.store[row.id].topics = topicsResult.topics,
                                             !.pc = "delay"]]
                           /\ tracker' = counted
                           /\ clock' = clock + 1
                           /\ UNCHANGED nextId
         [] run.pc = "delay" ->
                /\ NextIteration(r, run, tracker, clock)
                /\ UNCHANGED <<store, nextId>>

\* ------------------------------------------------------------------------
\* The HTTP routes (routes.ts, registerRoutes)
\* ------------------------------------------------------------------------
\* the response group of a rating, as each ingest route computes it
responseGroup_PassiveFrom8(rating) ==
  IF rating >= 9 THEN "Promoter"
  ELSE IF rating >= 8 THEN "Passive" ELSE "Detractor"

responseGroup(rating) ==
  IF rating >= 9 THEN "Promoter"
  ELSE IF rating >= 7 THEN "Passive" ELSE "Detractor"

\* rows a POST /api/csv body carries (the columns the pipeline never reads
\* are left out)
CsvRows ==
  {[rating |-> 9, date |-> Undefined,
    comment |-> "slow app", sentiment |-> Undefined, sentimentConfidence |-> NoNumber],
   [rating |-> 9, date |-> Undefined,
    comment |-> "slow app", sentiment |-> "neutral", sentimentConfidence |-> 8],
   [rating |-> 9, date |-> Undefined,
    comment |-> "slow app", sentiment |-> "N/A", sentimentConfidence |-> NoNumber],
   [rating |-> 9, date |-> Undefined,
    comment |-> " ", sentiment |-> Undefined, sentimentConfidence |-> NoNumber]}

\* rows without a comment: of every rating and no date, and of the ratings
\* at and between the limits of the three groups and either date
RatedRow(n, d) ==
  [rating |-> n, date |-> d,
   comment |-> Undefined, sentiment |-> Undefined, sentimentConfidence |-> NoNumber]

RatedRows == {RatedRow(n, Undefined) : n \in Ratings}

StoredRows == {RatedRow(n, d) : n \in {0, 3, 6, 7, 8, 9, 10}, d \in {Undefined, LastMonth}}

\* rows of the first sheet of a POST /api/upload file; a row without a date
\* or a rating cannot be inserted (hasDate = FALSE)
UploadRows ==
  {[rating |-> 9, date |-> Today,
    comment |-> "slow app", sentiment |-> Undefined, hasDate |-> TRUE],
   [rating |-> 9, date |-> Today,
    comment |-> "slow app", sentiment |-> "positive", hasDate |-> TRUE],
   [rating |-> 9, date |-> Undefined,
    comment |-> "slow app", sentiment |-> Undefined, hasDate |-> FALSE]}

\* rows a POST /api/nps-responses/bulk body carries
BulkRows ==
  {[rating |-> 9, date |-> Undefined, comment |-> "slow app"]}

\* request bodies that pass the route's schema (for /api/upload: a file):
\* the empty array and the arrays of one row of S
Bodies(S) ==
  {[valid |-> TRUE, rows |-> <<>>]} \cup {[valid |-> TRUE, rows |-> <<x>>] : x \in S}

\* the values insertResponse is given by each route
CsvData(r) ==
  [rating |-> r.rating,
   date |-> OrElse(r.date, Today),
   response_group |-> responseGroup(r.rating),
   comment |-> OrElse(r.comment, ""),
   sentiment |-> OrElse(r.sentiment, "neutral"),
   sentiment_confidence |-> OrElseNum(r.sentimentConfidence, 0)]

UploadData(r) ==
  [rating |-> r.rating, date |-> r.date,
   response_group |-> responseGroup(r.rating),
   comment |-> r.comment, sentiment |-> r.sentiment,
   sentiment_confidence |-> NoNumber]

BulkData(r) ==
  [rating |-> r.rating,
   date |-> OrElse(r.date, Today),
   response_group |-> responseGroup(r.rating),
   comment |-> OrElse(r.comment, ""), sentiment |-> Undefined,
   sentiment_confidence |-> NoNumber]

\* The insert loop of a route over datas, each insert in its own try/catch:
\* insert k throws when ~ok[k]. Gives the store, the next id and the count.
RECURSIVE InsertLoop(_, _, _, _, _)
InsertLoop(st, id, datas, ok, inserted) ==
  IF datas = <<>>
  THEN [store |-> st, nextId |-> id, inserted |-> inserted]
  ELSE IF Head(ok)
  THEN InsertLoop(insertResponse(st, id, Head(datas)), id + 1,
                  Tail(datas), Tail(ok), inserted + 1)
  ELSE InsertLoop(st, id, Tail(datas), Tail(ok), inserted)

\* the state after a route has run its insert loop and, when trigger holds,
\* has called processCommentsWithAI without awaiting it
AfterIngest(res, trigger) ==
  LET p == IF trigger THEN processCommentsWithAI(res.store, res.nextId, TRUE)
           ELSE [tracker |-> tracker, runs |-> runs, clock |-> clock]
  IN  /\ res.nextId - 1 <= MaxRows
      /\ Len(p.runs) <= MaxRuns
      /\ store' = res.store
      /\ nextId' = res.nextId
      /\ tracker' = p.tracker
      /\ runs' = p.runs
      /\ clock' = p.clock
      /\ UNCHANGED uploadSessions

\* GET /api/ai-status
GetAiStatus ==
  /\ reply' = [route |-> "ai-status", status |-> 200,
               total |-> getStatus(tracker).total,
               processed |-> getStatus(tracker).processed,
               inProgress |-> getStatus(tracker).inProgress,
               startTime |-> getStatus(tracker).startTime,
               lastUpdate |-> getStatus(tracker).lastUpdate,
               progress |-> getProgress(tracker)]
  /\ UNCHANGED <<store, nextId, tracker, clock, runs, uploadSessions>>

\* POST /api/process-ai. The answer carries one observation next to the
\* fields of the response: scanFailed, whether LocalDB.getResponses threw
\* in the processCommentsWithAI call of this request.
PostProcessAI(dbOk) ==
  IF isProcessing(tracker)
  THEN /\ reply' = [route |-> "process-ai", status |-> 409, success |-> FALSE,
                    scanFailed |-> FALSE]
       /\ UNCHANGED <<store, nextId, tracker, clock, runs, uploadSessions>>
  ELSE LET p == processCommentsWithAI(store, nextId, dbOk)
       IN  /\ Len(p.runs) <= MaxRuns
           /\ tracker' = p.tracker
           /\ runs' = p.runs
           /\ clock' = p.clock
           /\ reply' = [route |-> "process-ai", status |-> 200, success |-> TRUE,
                        scanFailed |-> ~dbOk]
           /\ UNCHANGED <<store, nextId, uploadSessions>>

\* POST /api/csv
PostCsv(body) ==
  IF ~body.valid
  THEN /\ reply' = NoReply
       /\ UNCHANGED <<store, nextId, tracker, clock, runs, uploadSessions>>
  ELSE LET res == InsertLoop(store, nextId,
                             [k \in 1..Len(body.rows) |-> CsvData(body.rows[k])],
                             [k \in 1..Len(body.rows) |-> TRUE], 0)
       IN  /\ AfterIngest(res, TRUE)
           /\ reply' = NoReply

\* POST /api/upload
PostUpload(file) ==
  IF ~file.valid
  THEN /\ reply' = NoReply
       /\ UNCHANGED <<store, nextId, tracker, clock, runs, uploadSessions>>
  ELSE LET res == InsertLoop(store, nextId,
                             [k \in 1..Len(file.rows) |-> UploadData(file.rows[k])],
                             [k \in 1..Len(file.rows) |-> file.rows[k].hasDate], 0)
       IN  /\ AfterIngest(res, TRUE)
           /\ reply' = NoReply

\* POST /api/nps-responses/bulk
PostBulk(body) ==
  IF ~body.valid
  THEN /\ reply' = NoReply
       /\ UNCHANGED <<store, nextId, tracker, clock, runs, uploadSessions>>
  ELSE LET res == InsertLoop(store, nextId,
                             [k \in 1..Len(body.rows) |-> BulkData(body.rows[k])],
                             [k \in 1..Len(body.rows) |-> TRUE], 0)
       IN  /\ AfterIngest(res, res.inserted > 0)
           /\ reply' = NoReply

\* DELETE /api/nps-responses
DeleteResponses ==
  /\ store' = clearAll(store)
  /\ reply' = NoReply
  /\ UNCHANGED <<nextId, tracker, clock, runs, uploadSessions>>

\* ------------------------------------------------------------------------
\* The NPS statistics (routes.ts, local-db.ts) and the response group
\* ------------------------------------------------------------------------
\* the three filters over r.rating, the same in every statistic
IsPromoter(r) == r.rating >= 9

IsPassive(r) == r.rating >= 7 /\ r.rating <= 8

\* a detractor filter that leaves out the rating 6
IsDetractor_Below6(r) == r.rating < 6

IsDetractor(r) == r.rating <= 6

\* new Date(r.date) >= weekAgo
SinceWeekAgo(r) == r.date = Today

\* a JavaScript number that is the quotient num / den of two integers
Quotient(n, d) == [num |-> n, den |-> d]

\* GET /api/nps-stats. The answer carries one observation next to the fields
\* of the response: counts, the three filter lengths of the handler.
GetNpsStats ==
  LET rows == getResponses(store)
      total == Len(rows)
      promoters == Len(SelectSeq(rows, IsPromoter))
      passives == Len(SelectSeq(rows, IsPassive))
      detractors == Len(SelectSeq(rows, IsDetractor))
  IN  /\ reply' =
           IF total = 0
           THEN [route |-> "nps-stats", status |-> 200,
                 npsScore |-> Quotient(0, 1),
                 segments |-> [promoters |-> Quotient(0, 1),
                               passives |-> Quotient(0, 1),
                               detractors |-> Quotient(0, 1)],
                 total |-> 0,
                 counts |-> [promoters |-> 0, passives |-> 0, detractors |-> 0]]
           ELSE [route |-> "nps-stats", status |-> 200,
                 npsScore |-> Quotient(100 * promoters - 100 * detractors, total),
                 segments |-> [promoters |-> Quotient(100 * promoters, total),
                               passives |-> Quotient(100 * passives, total),
                               detractors |-> Quotient(100 * detractors, total)],
                 total |-> total,
                 counts |-> [promoters |-> promoters, passives |-> passives,
                             detractors |-> detractors]]
      /\ UNCHANGED <<store, nextId, tracker, clock, runs, uploadSessions>>

\* LocalDB.getNPSStats() (local-db.ts)
getNPSStats(st) ==
  LET responses == getResponses(st)
      promoters == Len(SelectSeq(responses, IsPromoter))
      passives == Len(SelectSeq(responses, IsPassive))
      detractors == Len(SelectSeq(responses, IsDetractor))
      total == Len(responses)
  IN  [total |-> total,
       npsScore |-> IF total > 0 THEN RoundPercent(promoters - detractors, total) ELSE 0,
       promoters |-> promoters,
       passives |-> passives,
       detractors |-> detractors,
       promoterPercentage |-> IF total > 0 THEN RoundPercent(promoters, total) ELSE 0,
       passivePercentage |-> IF total > 0 THEN RoundPercent(passives, total) ELSE 0,
       detractorPercentage |-> IF total > 0 THEN RoundPercent(detractors, total) ELSE 0]

\* a call of LocalDB.getNPSStats()
CallGetNPSStats ==
  /\ reply' = [route |-> "localDB.getNPSStats", result |-> getNPSStats(store)]
  /\ UNCHANGED <<store, nextId, tracker, clock, runs, uploadSessions>>

\* GET /api/stats/nps: the answer is a list, empty for an empty Store and
\* else of one entry for the rows of the last seven days
GetStatsNps ==
  LET responses == getResponses(store)
      recentResponses == SelectSeq(responses, SinceWeekAgo)
      total == Len(recentResponses)
      promoters == Len(SelectSeq(recentResponses, IsPromoter))
      passives == Len(SelectSeq(recentResponses, IsPassive))
      detractors == Len(SelectSeq(recentResponses, IsDetractor))
  IN  /\ reply' =
           [route |-> "stats/nps", status |-> 200,
            body |-> IF Len(responses) = 0
                     THEN <<>>
                     ELSE <<[nps_score |-> IF total > 0
                                          THEN RoundPercent(promoters - detractors, total)
                                          ELSE 0,
                             total_responses |-> total,
                             promoters |-> promoters,
                             passives |-> passives,
                             detractors |-> detractors]>>]
      /\ UNCHANGED <<store, nextId, tracker, clock, runs, uploadSessions>>

\* PendoClient.transformToNpsResponse (pendo.ts), of a Pendo response
\* without feedback
transformToNpsResponse(pendoData) ==
  [rating |-> pendoData.score,
   comment |-> "",
   responseGroup |-> responseGroup(pendoData.score),
   sentiment |-> "neutral",
   sentimentConfidence |-> 0]

\* The values that reach insertResponse for a row r of a request, by the
\* route that ingests it, and the record the Pendo client makes of a
\* response with r's rating as score.
IngestValues(r) ==
  /\ reply' = [route |-> "ingest-values",
               given |-> r,
               csv |-> CsvData(r),
               upload |-> UploadData(r),
               bulk |-> BulkData(r),
               pendo |-> transformToNpsResponse([score |-> r.rating])]
  /\ UNCHANGED <<store, nextId, tracker, clock, runs, uploadSessions>>

\* ------------------------------------------------------------------------
\* The classification routes (routes.ts). Their handlers read and write
\* nothing but their own locals between their awaits, so each is one step.
\* Next to the fields of the response an answer carries observations:
\*   given   the request and the replies the inference endpoint gave
\*   calls   the number of requests sent to the inference endpoint
\*   events  (analyze-batch) the calls of and returns from analyzeComment
\* ------------------------------------------------------------------------
\* bodies of POST /api/test-ollama
TestBodies ==
  {[comment |-> c, text |-> Undefined] :
     c \in {Undefined, "slow app", " ", NotAString}}
    \cup {[comment |-> Undefined, text |-> "slow app"]}

\* bodies of POST /api/analyze-comment; present = FALSE: req.body is undefined
CommentBodies ==
  {[present |-> TRUE, comment |-> c] :
     c \in {Undefined, "", " ", "slow app", NotAString}}
    \cup {[present |-> FALSE, comment |-> Undefined]}

\* One element of the comments array of POST /api/analyze-batch, with the
\* replies the inference endpoint gives to its two prompts; isObject = FALSE:
\* the element is null
BatchItems ==
  {[isObject |-> TRUE, comment |-> "slow app", r1 |-> r1, r2 |-> r2] :
     r1 \in RunSentimentReplies,
     r2 \in {r \in TopicReplies : r.transport = "error" \/ r.json = "object"}}
    \cup {[isObject |-> o, comment |-> c, r1 |-> r1, r2 |-> r2] :
            o \in BOOLEAN, c \in {NotAString},
            r1 \in {r \in SentimentReplies : r.sentiment = "positive"},
            r2 \in {r \in TopicReplies : r.json = "object"}}

\* the arrays of at most n elements of S
SeqsUpTo(S, n) == UNION {[1..k -> S] : k \in 0..n}

\* bodies of POST /api/analyze-batch; isArray = FALSE: comments is no array
BatchBodies ==
  {[isArray |-> FALSE, comments |-> <<>>]}
    \cup {[isArray |-> TRUE, comments |-> items] :
            items \in SeqsUpTo(BatchItems, MaxBatch)}

\* testText of POST /api/test-ollama: the text it hands to both operations
TestText(body) ==
  OrElse(OrElse(body.comment, body.text), "This service is amazing!")

\* POST /api/test-ollama
PostTestOllama(body, r1, r2) ==
  LET testText == TestText(body)
      sentimentResult == analyzeSentiment(testText, r1)
      topicResult == extractTopics(testText, r2)
      given == [body |-> body, r1 |-> r1, r2 |-> r2]
  IN  /\ reply' =
           IF sentimentResult.threw
           THEN [route |-> "test-ollama", status |-> 500, success |-> FALSE,
                 given |-> given, calls |-> sentimentResult.calls]
           ELSE IF topicResult.threw
           THEN [route |-> "test-ollama", status |-> 500, success |-> FALSE,
                 given |-> given,
                 calls |-> sentimentResult.calls + topicResult.calls]
           ELSE [route |-> "test-ollama", status |-> 200, success |-> TRUE,
                 text |-> testText,
                 sentiment |-> SentimentResult(sentimentResult),
                 topics |-> TopicResult(topicResult),
                 given |-> given,
                 calls |-> sentimentResult.calls + topicResult.calls]
      /\ UNCHANGED <<store, nextId, tracker, clock, runs, uploadSessions>>

\* POST /api/analyze-comment
PostAnalyzeComment(body, r1, r2) ==
  LET given == [body |-> body, r1 |-> r1, r2 |-> r2]
      result == analyzeComment(body.comment, r1, r2)
  IN  /\ reply' =
           IF ~body.present
           THEN [route |-> "analyze-comment", status |-> 500,
                 given |-> given, calls |-> 0]
           ELSE [route |-> "analyze-comment", status |-> 200,
                 sentiment |-> result.sentiment, topics |-> result.topics,
                 given |-> given, calls |-> result.calls]
      /\ UNCHANGED <<store, nextId, tracker, clock, runs, uploadSessions>>

\* an analyze-batch loop that starts every analyzeComment before it awaits any
BatchLoop_AllAtOnce(items, results, events, calls) ==
  IF \E k \in 1..Len(items) : ~items[k].isObject
  THEN [threw |-> TRUE, results |-> results, events |-> events, calls |-> calls]
  ELSE [threw |-> FALSE,
        results |-> [k \in 1..Len(items) |->
                       [sentiment |-> analyzeComment(items[k].comment, items[k].r1, items[k].r2).sentiment,
                        topics |-> analyzeComment(items[k].comment, items[k].r1, items[k].r2).topics]],
        events |-> [k \in 1..Len(items) |-> [op |-> "call", item |-> k]]
                     \o [k \in 1..Len(items) |-> [op |-> "return", item |-> k]],
        calls |-> calls]

\* The loop of POST /api/analyze-batch over the elements left: each
\* analyzeComment is awaited before the next element is read. A null element
\* throws at c.comment.
RECURSIVE BatchLoop(_, _, _, _)
BatchLoop(items, results, events, calls) ==
  IF items = <<>>
  THEN [threw |-> FALSE, results |-> results, events |-> events, calls |-> calls]
  ELSE IF ~Head(items).isObject
  THEN [threw |-> TRUE, results |-> results, events |-> events, calls |-> calls]
  ELSE LET k == Len(results) + 1
           result == analyzeComment(Head(items).comment, Head(items).r1, Head(items).r2)
       IN  BatchLoop(Tail(items),
                     Append(results, [sentiment |-> result.sentiment,
                                      topics |-> result.topics]),
                     events \o <<[op |-> "call", item |-> k],
                                 [op |-> "return", item |-> k]>>,
                     calls + result.calls)

\* POST /api/analyze-batch
PostAnalyzeBatch(body) ==
  LET comments == IF body.isArray THEN body.comments ELSE <<>>
      loop == BatchLoop(comments, <<>>, <<>>, 0)
  IN  /\ reply' =
           IF loop.threw
           THEN [route |-> "analyze-batch", status |-> 500,
                 given |-> body, events |-> loop.events, calls |-> loop.calls]
           ELSE [route |-> "analyze-batch", status |-> 200,
                 results |-> loop.results,
                 given |-> body, events |-> loop.events, calls |-> loop.calls]
      /\ UNCHANGED <<store, nextId, tracker, clock, runs, uploadSessions>>

\* a direct call of localLLM.analyzeSentiment
LocalAnalyzeSentiment(comment, r) ==
  /\ reply' = [route |-> "localLLM.analyzeSentiment",
               result |-> LocalLLM_analyzeSentiment(comment, r),
               given |-> [comment |-> comment, r |-> r]]
  /\ UNCHANGED <<store, nextId, tracker, clock, runs, uploadSessions>>

\* the elements of the array localLLM.analyzeBatch is given, apart from
\* their ids
LocalBatchItems ==
  {[comment |-> c,
    r1 |-> [transport |-> "ok", json |-> "none", sentiment |-> Undefined,
            confidence |-> NoNumber],
    r2 |-> [transport |-> "ok", json |-> "none", topics |-> <<>>],
    progress |-> p] :
     c \in {"", "slow app", NotAString}, p \in {"returns", "throws"}}

\* a call of localLLM.analyzeBatch(comments, onProgress); the element at
\* position k has the id k
LocalAnalyzeBatch(items, hasProgress) ==
  LET comments == [k \in 1..Len(items) |->
                     [id |-> k, comment |-> items[k].comment,
                      r1 |-> items[k].r1, r2 |-> items[k].r2,
                      progress |-> items[k].progress]]
      res == LocalLLM_analyzeBatch(comments, hasProgress, 1, <<>>, <<>>)
  IN  /\ reply' = [route |-> "localLLM.analyzeBatch",
                   results |-> res.results,
                   given |-> [comments |-> comments, hasProgress |-> hasProgress],
                   progress |-> res.progress]
      /\ UNCHANGED <<store, nextId, tracker, clock, runs, uploadSessions>>

\* ------------------------------------------------------------------------
\* Upload sessions (the Hono application in local-llm.ts)
\* ------------------------------------------------------------------------
\* new Map()
NoSessions == [i \in {} |-> 0]

\* the lifetime of a session (one hour), in instants of the clock
SessionLifetime == 2

\* what parseFileData makes of an uploaded file: its rows, each passing
\* NpsResponseSchema or not
UploadFiles ==
  {[present |-> FALSE, rows |-> <<>>],
   [present |-> TRUE, rows |-> <<[valid |-> TRUE]>>],
   [present |-> TRUE, rows |-> <<[valid |-> FALSE]>>]}

\* Time passes.
Tick ==
  /\ clock < MaxClock
  /\ clock' = clock + 1
  /\ reply' = NoReply
  /\ UNCHANGED <<store, nextId, tracker, runs, uploadSessions>>

\* POST /api/upload/preview. The session id is made of Date.now() and a
\* random suffix; the handler of the model reads a later instant than any
\* handler before it, so the instant alone is the id.
PostUploadPreview(file) ==
  IF ~file.present
  THEN /\ reply' = [route |-> "upload/preview", status |-> 400,
                    error |-> "No file uploaded"]
       /\ UNCHANGED <<store, nextId, tracker, clock, runs, uploadSessions>>
  ELSE LET now == clock + 1
           sessionId == now
       IN  /\ now <= MaxClock
           /\ uploadSessions' =
                 [i \in DOMAIN uploadSessions \cup {sessionId} |->
                    IF i = sessionId
                    THEN [data |-> file.rows, expiresAt |-> now + SessionLifetime]
                    ELSE uploadSessions[i]]
           /\ clock' = now
           /\ reply' = [route |-> "upload/preview", status |-> 200,
                        total_rows |-> Len(file.rows), session_id |-> sessionId]
           /\ UNCHANGED <<store, nextId, tracker, runs>>

\* the callback of setInterval(..., 5 * 60 * 1000): the timer fires
CleanupSessions ==
  LET now == clock
  IN  /\ uploadSessions' =
            [i \in {j \in DOMAIN uploadSessions : ~(uploadSessions[j].expiresAt < now)} |->
               uploadSessions[i]]
      /\ reply' = NoReply
      /\ UNCHANGED <<store, nextId, tracker, clock, runs>>

\* POST /api/upload/commit with a body that passes UploadCommitRequestSchema
PostUploadCommit(session_id) ==
  IF session_id \notin DOMAIN uploadSessions
  THEN /\ reply' = [route |-> "upload/commit", status |-> 400,
                    session_id |-> session_id,
                    error |-> "Invalid or expired session"]
       /\ UNCHANGED <<store, nextId, tracker, clock, runs, uploadSessions>>
  ELSE LET responses == uploadSessions[session_id].data
           importedCount == Len(SelectSeq(responses, LAMBDA x : x.valid))
           skippedCount == Len(SelectSeq(responses, LAMBDA x : ~x.valid))
       IN  /\ uploadSessions' =
                 [i \in DOMAIN uploadSessions \ {session_id} |-> uploadSessions[i]]
           /\ reply' = [route |-> "upload/commit", status |-> 200,
                        session_id |-> session_id,
                        success |-> skippedCount = 0,
                        imported_count |-> importedCount,
                        skipped_count |-> skippedCount]
           /\ UNCHANGED <<store, nextId, tracker, clock, runs>>

\* ------------------------------------------------------------------------
\* The system
\* ------------------------------------------------------------------------
Init ==
  /\ store = EmptyStore
  /\ nextId = 1
  /\ tracker = InitialStatus
  /\ clock = NoTime
  /\ runs = <<>>
  /\ uploadSessions = NoSessions
  /\ reply = NoReply

Next ==
  \/ GetAiStatus
  \/ \E dbOk \in BOOLEAN : PostProcessAI(dbOk)
  \/ \E body \in Bodies(CsvRows) : PostCsv(body)
  \/ \E file \in Bodies(UploadRows) : PostUpload(file)
  \/ \E body \in Bodies(BulkRows) : PostBulk(body)
  \/ DeleteResponses
  \/ \E r \in 1..MaxRuns : ResumeRun(r)

Spec == Init /\ [][Next]_vars

\* The Node.js event loop resumes a suspended loop once the promise it awaits
\* has settled: every inference call returns or throws.
LiveSpec == Init /\ [][Next]_vars /\ \A r \in 1..MaxRuns : WF_vars(ResumeRun(r))

\* The classification routes alone, on a Store and a tracker that
\* POST /api/nps-responses/bulk fills and starts.
ClientNext ==
  \/ \E body \in TestBodies, r1 \in SentimentReplies, r2 \in TopicReplies :
       PostTestOllama(body, r1, r2)
  \/ \E body \in CommentBodies, r1 \in SentimentReplies, r2 \in TopicReplies :
       PostAnalyzeComment(body, r1, r2)
  \/ \E body \in BatchBodies : PostAnalyzeBatch(body)
  \/ \E comment \in LocalComments, r \in LocalSentimentReplies :
       LocalAnalyzeSentiment(comment, r)
  \/ \E body \in Bodies(BulkRows) : PostBulk(body)

ClientSpec == Init /\ [][ClientNext]_vars

\* The exported localLLM instance, called directly.
LocalNext ==
  \/ \E comment \in LocalComments, r \in LocalSentimentReplies :
       LocalAnalyzeSentiment(comment, r)
  \/ \E items \in SeqsUpTo(LocalBatchItems, MaxBatch), hasProgress \in BOOLEAN :
       LocalAnalyzeBatch(items, hasProgress)

LocalSpec == Init /\ [][LocalNext]_vars

\* The upload sessions of the Hono application.
UploadNext ==
  \/ \E file \in UploadFiles : PostUploadPreview(file)
  \/ \E session_id \in 1..MaxClock : PostUploadCommit(session_id)
  \/ CleanupSessions
  \/ Tick

UploadSpec == Init /\ [][UploadNext]_vars

\* Ingest of rated rows without comments (no row is pending, no loop starts)
\* and the statistics over them.
StatsNext ==
  \/ \E body \in Bodies(StoredRows) : PostCsv(body)
  \/ \E r \in RatedRows : IngestValues(r)
  \/ GetNpsStats
  \/ CallGetNPSStats
  \/ GetStatsNps
  \/ DeleteResponses

StatsSpec == Init /\ [][StatsNext]_vars

\* The server process started on a database file (data/nps_data.db) that
\* earlier ingests filled: the Store holds rows, the tracker of the new
\* process is idle and no loop runs.
RestartInit ==
  /\ \E rows \in SeqsUpTo(CsvRows, MaxRows) :
        LET res == InsertLoop(EmptyStore, 1,
                              [k \in 1..Len(rows) |-> CsvData(rows[k])],
                              [k \in 1..Len(rows) |-> TRUE], 0)
        IN  /\ store = res.store
            /\ nextId = res.nextId
  /\ tracker = InitialStatus
  /\ clock = NoTime
  /\ runs = <<>>
  /\ uploadSessions = NoSessions
  /\ reply = NoReply

\* POST /api/process-ai as the only trigger
ManualNext ==
  \/ \E dbOk \in BOOLEAN : PostProcessAI(dbOk)
  \/ \E r \in 1..MaxRuns : ResumeRun(r)

ManualSpec == RestartInit /\ [][ManualNext]_vars

\* ------------------------------------------------------------------------
\* Properties
\* ------------------------------------------------------------------------
ActiveRuns == {r \in DOMAIN runs : Active(r)}

\* C1: single run at a time. A trigger that arrives while a loop is running
\* starts no second loop: at no time are two processCommentsWithAI loops
\* active together.
C1_SingleRunAtATime == Cardinality(ActiveRuns) <= 1

\* C2: in every reachable state the tracker satisfies
\* 0 <= processed <= total.
C2_ProcessedWithinTotal ==
  /\ 0 <= tracker.processed
  /\ tracker.processed <= tracker.total

\* C3: write-back. When a run has completed, every row it scanned (both
\* classification calls returned for each) received exactly one enrichment
\* write, and the stored row held the classifier's sentiment, confidence 0.8
\* and the classifier's topics.
C3_WriteBack ==
  \A r \in DOMAIN runs :
    runs[r].pc = "done" =>
      \A k \in 1..Len(runs[r].rows) :
        runs[r].writes[k] = 1 /\ runs[r].matched[k]

\* C4: a run over N rows that no other run overlaps, whatever number of its
\* rows threw, ends with processed = N, total = N, inProgress = FALSE and a
\* reported progress of 100.
C4_RunEndsComplete ==
  [][\A r \in DOMAIN runs :
       (Active(r) /\ runs'[r].pc = "done" /\ ~runs'[r].overlapped) =>
          /\ tracker'.processed = Len(runs[r].rows)
          /\ tracker'.total = Len(runs[r].rows)
          /\ ~tracker'.inProgress
          /\ getProgress(tracker') = 100]_vars

\* a run over two rows, both of which threw at the write, has ended without
\* another run overlapping it
C4_Witness ==
  \E r \in DOMAIN runs :
    /\ runs[r].pc = "done"
    /\ ~runs[r].overlapped
    /\ Len(runs[r].rows) = 2
    /\ \A k \in 1..2 : runs[r].writes[k] = 0
    /\ tracker.processed = 2
    /\ ~tracker.inProgress

\* C5: within a run incrementProcessed is called exactly once per scanned
\* row: never twice, once for every row the loop has passed, and once for
\* every row when the run has ended.
C5_CountedOncePerRow ==
  \A r \in DOMAIN runs :
    \A k \in 1..Len(runs[r].rows) :
      /\ runs[r].counted[k] <= 1
      /\ (k < runs[r].idx \/ runs[r].pc \in {"delay", "done"}) => runs[r].counted[k] = 1
      /\ (k > runs[r].idx) => runs[r].counted[k] = 0

\* a run has ended after passing two rows on the failure path
C5_Witness ==
  \E r \in DOMAIN runs :
    /\ runs[r].pc = "done"
    /\ Len(runs[r].rows) = 2
    /\ runs[r].counted = <<1, 1>>
    /\ runs[r].writes = <<0, 0>>

\* C6: under fairness every run that called startProcessing reaches
\* completeProcessing, and inProgress becomes false again.
C6_RunsComplete ==
  /\ \A r \in 1..MaxRuns :
       (r \in DOMAIN runs) ~> (r \in DOMAIN runs /\ runs[r].pc = "done")
  /\ tracker.inProgress ~> ~tracker.inProgress

\* a run over two rows has returned and the tracker is at rest
C6_Witness ==
  \E r \in DOMAIN runs :
    /\ runs[r].pc = "done"
    /\ Len(runs[r].rows) = 2
    /\ ActiveRuns = {}
    /\ ~tracker.inProgress

\* C7: POST /api/process-ai answers 409 exactly when inProgress is true when
\* the request arrives and 200 with success otherwise; a 409 answer starts
\* no run and leaves the tracker and the Store unchanged.
C7_ProcessAiConflict ==
  [][(reply'.route = "process-ai") =>
       /\ reply'.status = (IF tracker.inProgress THEN 409 ELSE 200)
       /\ reply'.success = (reply'.status = 200)
       /\ (reply'.status = 409) => UNCHANGED <<store, nextId, tracker, clock, runs, uploadSessions>>]_vars

\* POST /api/process-ai was answered 409 while a loop was running
C7_Witness ==
  /\ reply.route = "process-ai"
  /\ reply.status = 409
  /\ tracker.inProgress
  /\ ActiveRuns # {}

\* C8: idempotence. A run that follows a finished run with no row inserted in
\* between finds nothing to process: total is 0 and it writes nothing.
C8_SecondRunFindsNothing ==
  \A r \in DOMAIN runs :
    runs[r].rescan => (Len(runs[r].rows) = 0 /\ tracker.total = 0)

\* a stored row is pending enrichment: its comment is not empty and its
\* sentiment is unset or the default sentinel (N/A, or neutral with zero
\* confidence)
PendingEnrichment(row) ==
  /\ Truthy(row.comment) /\ Trim(row.comment) # ""
  /\ \/ ~Truthy(row.sentiment)
     \/ row.sentiment = "N/A"
     \/ row.sentiment = "neutral" /\ row.sentiment_confidence \in {NoNumber, 0}

\* C9: the rows a scan selects are exactly the stored rows that are pending
\* enrichment.
C9_ScanSelectsPending ==
  {commentsToProcess(store)[k].id : k \in 1..Len(commentsToProcess(store))}
    = {i \in DOMAIN store : PendingEnrichment(store[i])}

\* C10: inProgress is true exactly while some run has called startProcessing
\* and not yet completeProcessing.
C10_InProgressIffRunActive ==
  tracker.inProgress <=> (ActiveRuns # {})

\* C11: when LocalDB.getResponses throws at scan time, POST /api/process-ai
\* answers with a failure (no 200, no success) and no run starts: the tracker
\* and the runs are unchanged.
C11_ScanFailureReported ==
  [][(reply'.route = "process-ai" /\ reply'.scanFailed) =>
       /\ reply'.status # 200
       /\ ~reply'.success
       /\ UNCHANGED <<tracker, runs>>]_vars

\* the three-way enum of sentiments
SentimentEnum == {"positive", "neutral", "negative"}

\* C12: for every comment (a string) and every reply of the inference
\* endpoint, analyzeSentiment returns without raising and the sentiment it
\* returns is one of positive, neutral, negative.
C12_SentimentClamped ==
  (reply.route = "test-ollama" /\ reply.given.body.comment # NotAString) =>
     /\ reply.status = 200
     /\ reply.sentiment.sentiment \in SentimentEnum

\* C13: a transport error of the inference endpoint during analyzeSentiment
\* or extractTopics never reaches the caller as an exception: the operation
\* returns its safe default (neutral / "Analysis failed"; the single topic
\* general with confidence 0.1).
C13_TransportErrorConverted ==
  (reply.route = "test-ollama"
     /\ CommentGuard(TestText(reply.given.body)) = "text") =>
     /\ reply.given.r1.transport = "error" =>
          /\ reply.status = 200
          /\ reply.sentiment =
               [sentiment |-> "neutral", explanation |-> "Analysis failed"]
     /\ reply.given.r2.transport = "error" =>
          /\ reply.status = 200
          /\ reply.topics =
               [topics |-> <<[topic |-> "general", confidence |-> 1]>>]

\* both requests of one POST /api/test-ollama met a transport error and the
\* route answered 200 with both safe defaults
C13_Witness ==
  /\ reply.route = "test-ollama"
  /\ reply.given.r1.transport = "error"
  /\ reply.given.r2.transport = "error"
  /\ reply.calls = 2
  /\ reply.status = 200
  /\ reply.sentiment.explanation = "Analysis failed"
  /\ reply.topics.topics[1].confidence = 1

\* an operation of analyzeComment fails when its request to the inference
\* endpoint meets a transport error or its reply holds no parseable JSON
\* object, and succeeds when the reply holds one
InferenceFailed(r) == r.transport = "error" \/ r.json # "object"

\* C14: analyzeComment degrades per half. When exactly one of its two
\* operations fails and the other succeeds, the pair it returns keeps the
\* result of the one that succeeded and holds the safe default (sentiment
\* neutral; the single topic general) only in the half that failed.
C14_DegradesPerHalf ==
  (/\ reply.route = "analyze-comment"
   /\ reply.given.body.present
   /\ CommentGuard(reply.given.body.comment) = "text") =>
     /\ reply.status = 200
     /\ (InferenceFailed(reply.given.r1) /\ ~InferenceFailed(reply.given.r2)) =>
          /\ reply.sentiment.sentiment = "neutral"
          /\ reply.sentiment.explanation # "Analysis completed"
          /\ reply.topics.topics = reply.given.r2.topics
     /\ (~InferenceFailed(reply.given.r1) /\ InferenceFailed(reply.given.r2)) =>
          /\ reply.sentiment.sentiment = OrElse(reply.given.r1.sentiment, "neutral")
          /\ reply.sentiment.explanation = "Analysis completed"
          /\ Len(reply.topics.topics) = 1
          /\ reply.topics.topics[1].topic = "general"

\* POST /api/analyze-comment whose topics request met a transport error while
\* the sentiment reply was parsed: negative is kept, the topics are the default
C14_Witness ==
  /\ reply.route = "analyze-comment"
  /\ reply.status = 200
  /\ reply.given.r2.transport = "error"
  /\ reply.given.r1.sentiment = "negative"
  /\ reply.sentiment.sentiment = "negative"
  /\ reply.topics.topics = <<[topic |-> "general", confidence |-> 1]>>
  /\ reply.calls = 2

\* the confidence field of a returned sentiment result (NoNumber: the object
\* has no such field)
Confidence(res) ==
  IF "confidence" \in DOMAIN res THEN res.confidence ELSE NoNumber

\* C15: for an empty or whitespace-only comment the classification client
\* returns sentiment neutral with confidence 0 and sends no request to the
\* inference endpoint.
C15_EmptyCommentShortCircuit ==
  (/\ reply.route = "analyze-comment"
   /\ reply.given.body.present
   /\ reply.given.body.comment \in {"", " "}) =>
     /\ reply.sentiment.sentiment = "neutral"
     /\ Confidence(reply.sentiment) = 0
     /\ reply.calls = 0

\* the same for localLLM.analyzeSentiment
C15_LocalLLM ==
  (reply.route = "localLLM.analyzeSentiment"
     /\ reply.given.comment \in {"", " "}) =>
     /\ reply.result.sentiment = "neutral"
     /\ Confidence(reply.result) = 0
     /\ reply.result.calls = 0

\* the keyword fallback table applied to a comment: positive if more
\* positive than negative keywords match, negative if more negative, neutral
\* otherwise
FallbackSentiment(comment) ==
  LET pos == {w \in positiveWords : Includes(comment, w)}
      neg == {w \in negativeWords : Includes(comment, w)}
  IN  CASE Cardinality(pos) > Cardinality(neg) -> "positive"
        [] Cardinality(neg) > Cardinality(pos) -> "negative"
        [] OTHER -> "neutral"

\* C16: when the reply of the inference endpoint holds no JSON object at all,
\* the sentiment returned is the one the keyword fallback table gives for the
\* comment (and so depends on the comment alone).
C16_KeywordFallback ==
  (/\ reply.route = "test-ollama"
   /\ CommentGuard(TestText(reply.given.body)) = "text"
   /\ reply.given.r1.transport = "ok"
   /\ reply.given.r1.json = "none") =>
     /\ reply.status = 200
     /\ reply.sentiment.sentiment = FallbackSentiment(TestText(reply.given.body))

\* the same for localLLM.analyzeSentiment
C16_LocalLLM ==
  (/\ reply.route = "localLLM.analyzeSentiment"
   /\ CommentGuard(reply.given.comment) = "text"
   /\ reply.given.r.transport = "ok"
   /\ reply.given.r.json = "none") =>
     reply.result.sentiment = FallbackSentiment(reply.given.comment)

\* C17: startProcessing(n), called in any tracker state, leaves total = n,
\* processed = 0, inProgress = TRUE and startTime = lastUpdate = the time of
\* the call: nothing of the state before it survives.
C17_StartResets ==
  [][Len(runs') > Len(runs) =>
       /\ tracker'.total = Len(runs'[Len(runs')].rows)
       /\ tracker'.processed = 0
       /\ tracker'.inProgress
       /\ tracker'.startTime = clock' /\ tracker'.startTime # NoTime
       /\ tracker'.lastUpdate = clock']_vars

\* a second run has just started over two rows, after a first run over one
\* row had counted its row and ended: the tracker shows 0 of 2
C17_Witness ==
  /\ Len(runs) = 2
  /\ runs[1].pc = "done" /\ runs[1].counted = <<1>>
  /\ runs[2].pc = "sentiment" /\ runs[2].idx = 1 /\ Len(runs[2].rows) = 2
  /\ tracker.total = 2 /\ tracker.processed = 0 /\ tracker.inProgress
  /\ tracker.startTime = tracker.lastUpdate

\* q is 100 * processed / total rounded to the nearest integer, halves up
IsRoundedPercent(q, processed, total) ==
  /\ 2 * q * total - total <= 200 * processed
  /\ 200 * processed < 2 * q * total + total

\* C18: the progress GET /api/ai-status returns is 0 when total is 0 and
\* round(100 * processed / total) otherwise, and lies in 0..100.
C18_ProgressPercent ==
  reply.route = "ai-status" =>
     /\ IF reply.total = 0
        THEN reply.progress = 0
        ELSE IsRoundedPercent(reply.progress, reply.processed, reply.total)
     /\ reply.progress \in 0..100

\* the first half of C18 alone: the value is the rounded quotient
C18_ProgressFormula ==
  reply.route = "ai-status" =>
     IF reply.total = 0
     THEN reply.progress = 0
     ELSE IsRoundedPercent(reply.progress, reply.processed, reply.total)

\* C19: fire-and-forget. A trigger that starts a run over N >= 1 rows answers
\* in the step that called startProcessing, without waiting for the run: when
\* the answer is sent the run is suspended at its first classification call,
\* none of its rows is counted, and completeProcessing has not been called.
\* POST /api/process-ai answers 200 with success in that step.
C19_FireAndForget ==
  [][Len(runs') > Len(runs) =>
       LET new == runs'[Len(runs')]
       IN  /\ Len(new.rows) >= 1
           /\ new.pc = "sentiment" /\ new.idx = 1
           /\ \A k \in 1..Len(new.rows) : new.counted[k] = 0
           /\ tracker'.inProgress
           /\ tracker'.processed = 0
           /\ tracker'.total = Len(new.rows)
           /\ (~UNCHANGED reply /\ reply'.route = "process-ai") =>
                (reply'.status = 200 /\ reply'.success)]_vars

\* POST /api/process-ai has been answered 200 after an earlier run had ended,
\* and the run it started has processed nothing yet
C19_Witness ==
  /\ reply.route = "process-ai" /\ reply.status = 200
  /\ Len(runs) = 2
  /\ runs[1].pc = "done"
  /\ runs[2].pc = "sentiment" /\ runs[2].idx = 1
  /\ Len(runs[2].rows) >= 1
  /\ \A k \in 1..Len(runs[2].rows) : runs[2].counted[k] = 0
  /\ tracker.inProgress /\ tracker.processed = 0
  /\ tracker.total = Len(runs[2].rows)

\* C20: POST /api/analyze-batch with k comments (k objects) answers with
\* exactly k results, result i being the classification of comment i; each
\* analyzeComment returns before the next is called; and the step changes
\* neither the Store nor the tracker nor any run. POST /api/analyze-comment
\* changes none of them either.
C20_BatchFrame ==
  [][(reply'.route \in {"analyze-batch", "analyze-comment"}) =>
       /\ UNCHANGED <<store, nextId, tracker, clock, runs, uploadSessions>>
       /\ (/\ reply'.route = "analyze-batch"
           /\ reply'.given.isArray
           /\ \A k \in 1..Len(reply'.given.comments) :
                reply'.given.comments[k].isObject) =>
            LET items == reply'.given.comments
            IN  /\ reply'.status = 200
                /\ Len(reply'.results) = Len(items)
                /\ \A k \in 1..Len(items) :
                     /\ reply'.results[k].sentiment =
                          analyzeComment(items[k].comment, items[k].r1, items[k].r2).sentiment
                     /\ reply'.results[k].topics =
                          analyzeComment(items[k].comment, items[k].r1, items[k].r2).topics
                     /\ reply'.events[2 * k - 1] = [op |-> "call", item |-> k]
                     /\ reply'.events[2 * k] = [op |-> "return", item |-> k]
                /\ Len(reply'.events) = 2 * Len(items)]_vars

\* POST /api/analyze-batch has answered two comments with two different
\* results while the Store held a row and the tracker showed a run in progress
C20_Witness ==
  /\ reply.route = "analyze-batch"
  /\ reply.status = 200
  /\ Len(reply.given.comments) = 2
  /\ Len(reply.results) = 2
  /\ reply.results[1] # reply.results[2]
  /\ store # EmptyStore
  /\ tracker.inProgress

\* C21: for every integer rating r in 0..10 the response group assigned at
\* ingest (by /api/csv, /api/upload, /api/nps-responses/bulk and the Pendo
\* client) is Promoter iff r >= 9, Passive iff 7 <= r <= 8 and Detractor
\* iff r <= 6: exactly one of the three.
GroupIs(g, r) ==
  /\ g \in {"Promoter", "Passive", "Detractor"}
  /\ (g = "Promoter") <=> (r >= 9)
  /\ (g = "Passive") <=> (7 <= r /\ r <= 8)
  /\ (g = "Detractor") <=> (r <= 6)

C21_ResponseGroup ==
  (reply.route = "ingest-values" /\ reply.given.rating \in Ratings) =>
    /\ GroupIs(reply.csv.response_group, reply.given.rating)
    /\ GroupIs(reply.upload.response_group, reply.given.rating)
    /\ GroupIs(reply.bulk.response_group, reply.given.rating)
    /\ GroupIs(reply.pendo.responseGroup, reply.given.rating)

\* C21 witness: the rating 7, the lowest of the Passive group, was ingested
C21_Witness ==
  /\ reply.route = "ingest-values"
  /\ reply.given.rating = 7
  /\ reply.csv.response_group = "Passive"
  /\ reply.pendo.responseGroup = "Passive"

\* C30: the statistics partition the stored rows (integer ratings 0..10).
\* the rows of the Store whose response group is g, among those with ids in ids
RowsOfGroup(g, ids) ==
  Cardinality({i \in ids : responseGroup(store[i].rating) = g})

AllRows == DOMAIN store

RecentRows == {i \in DOMAIN store : SinceWeekAgo(store[i])}

\* counts p, pa, d of a statistic over the rows with ids in ids, total n
Partitions(p, pa, d, n, ids) ==
  /\ p = RowsOfGroup("Promoter", ids)
  /\ pa = RowsOfGroup("Passive", ids)
  /\ d = RowsOfGroup("Detractor", ids)
  /\ n = Cardinality(ids)
  /\ p + pa + d = n

C30_NpsStatsRoute ==
  reply.route = "nps-stats" =>
    /\ Partitions(reply.counts.promoters, reply.counts.passives,
                  reply.counts.detractors, reply.total, AllRows)
    /\ reply.npsScore.den > 0
    /\ -100 * reply.npsScore.den <= reply.npsScore.num
    /\ reply.npsScore.num <= 100 * reply.npsScore.den
    /\ (store = EmptyStore => reply.npsScore.num = 0)

C30_GetNPSStats ==
  reply.route = "localDB.getNPSStats" =>
    /\ Partitions(reply.result.promoters, reply.result.passives,
                  reply.result.detractors, reply.result.total, AllRows)
    /\ reply.result.npsScore \in -100..100
    /\ (store = EmptyStore => reply.result.npsScore = 0)

\* C30 (as stated): each of the three statistics counts every stored row in
\* the segment of its response group, the counts add up to the number of
\* rows, and the score lies in -100..100 and is 0 for an empty Store.
C30_EveryStatisticCountsEveryRow ==
  /\ C30_NpsStatsRoute
  /\ C30_GetNPSStats
  /\ reply.route = "stats/nps" =>
        /\ Len(reply.body) = 1
        /\ Partitions(reply.body[1].promoters, reply.body[1].passives,
                      reply.body[1].detractors, reply.body[1].total_responses,
                      AllRows)
        /\ reply.body[1].nps_score \in -100..100
        /\ (store = EmptyStore => reply.body[1].nps_score = 0)

\* C30 (amended): /api/nps-stats and LocalDB.getNPSStats count every stored
\* row; /api/stats/nps answers an empty list for an empty Store, and else
\* counts the rows dated within the last seven days, each in the segment of
\* its response group, with a score in -100..100 that is 0 when it counted
\* no row.
C30_StatsPartition ==
  /\ C30_NpsStatsRoute
  /\ C30_GetNPSStats
  /\ reply.route = "stats/nps" =>
        IF store = EmptyStore
        THEN reply.body = <<>>
        ELSE /\ Len(reply.body) = 1
             /\ Partitions(reply.body[1].promoters, reply.body[1].passives,
                           reply.body[1].detractors, reply.body[1].total_responses,
                           RecentRows)
             /\ reply.body[1].nps_score \in -100..100
             /\ (reply.body[1].total_responses = 0 => reply.body[1].nps_score = 0)

\* C30 witness: /api/stats/nps answered over a Store of a recent detractor
\* row and an older promoter row, counting the recent row alone
C30_Witness ==
  /\ reply.route = "stats/nps"
  /\ Cardinality(DOMAIN store) = 2
  /\ \E i, j \in DOMAIN store :
        /\ store[i].date = Today /\ store[i].rating = 6
        /\ store[j].date = LastMonth /\ store[j].rating = 9
  /\ reply.body[1].detractors = 1
  /\ reply.body[1].total_responses = 1
  /\ reply.body[1].nps_score = -100

\* C22 (as stated): the inProgress check of POST /api/process-ai and
\* startProcessing are not one atomic step: a request that has passed the
\* check with a pending row in the Store leaves the flag not yet observably
\* true, so that a second request passes the check as well and both start
\* a run.
C22_CheckAndStartNotAtomic ==
  [][(/\ reply'.route = "process-ai"
      /\ reply'.status = 200
      /\ ~reply'.scanFailed
      /\ commentsToProcess(store) # <<>>)
     => ~isProcessing(tracker')]_vars

\* C22 (amended): no interleaving of POST /api/process-ai requests starts
\* two runs. The check, the scan and startProcessing are one uninterrupted
\* stretch, so a request that arrives while a loop is active is answered 409
\* and starts nothing, and at most one loop is active at any time.
C22_NoProcessAiRace ==
  [][/\ Cardinality({r \in DOMAIN runs' : runs'[r].pc # "done"}) <= 1
     /\ (reply'.route = "process-ai" /\ ActiveRuns # {})
          => (reply'.status = 409 /\ runs' = runs /\ tracker' = tracker)
     /\ (Len(runs') > Len(runs)) => (~isProcessing(tracker) /\ isProcessing(tracker'))]_vars

\* C22 witness: a second POST /api/process-ai arrived right after the first
\* had started its loop (nothing processed yet) and was answered 409
C22_Witness ==
  /\ reply.route = "process-ai"
  /\ reply.status = 409
  /\ Len(runs) = 1
  /\ runs[1].pc = "sentiment"
  /\ runs[1].idx = 1
  /\ tracker.processed = 0
  /\ tracker.inProgress

\* C23: completeProcessing is called once per started run and only after
\* its last row: inProgress never changes from true to false while rows of
\* a started run are still unprocessed (a loop still active, or
\* processed < total).
C23_CompleteAfterLastRow ==
  [][(tracker.inProgress /\ ~tracker'.inProgress)
       => /\ \A r \in DOMAIN runs' : runs'[r].pc = "done"
          /\ ~(tracker'.processed < tracker'.total)]_vars

\* C24: within one run rows are processed strictly sequentially: the row
\* whose inference call is in flight is the first row not yet counted by
\* incrementProcessed, every row before it has been counted, and no row
\* after it has been started; the loop moves from row k only to row k+1 and
\* only in the step that has counted row k.
C24_Sequential ==
  [][\A r \in DOMAIN runs' :
       LET run == runs'[r]
       IN  /\ \A k \in 1..Len(run.rows) :
                /\ (k < run.idx) => run.counted[k] >= 1
                /\ (k > run.idx) => (run.counted[k] = 0 /\ run.writes[k] = 0)
                /\ (k = run.idx /\ run.pc \in {"sentiment", "topics"})
                     => run.counted[k] = 0
           /\ (r \in DOMAIN runs /\ run.idx # runs[r].idx)
                => /\ run.idx = runs[r].idx + 1
                   /\ run.pc = "sentiment"
                   /\ run.counted[runs[r].idx] >= 1]_vars

\* C24 witness: a loop of two rows has counted its first row and has the
\* inference call of its second row in flight
C24_Witness ==
  \E r \in DOMAIN runs :
    /\ Len(runs[r].rows) = 2
    /\ runs[r].idx = 2
    /\ runs[r].pc = "topics"
    /\ runs[r].counted[1] = 1
    /\ runs[r].counted[2] = 0

\* C25: when classification or the Store write throws for row k, the stored
\* sentiment, confidence and topics of row k stay as they were and the loop
\* goes on to row k+1; a loop that has ended has attempted every row of its
\* scanned set.
C25_ThrowingRowSkipped ==
  [][\A r \in DOMAIN runs :
       LET k == runs[r].idx
           caught == /\ runs'[r].counted[k] > runs[r].counted[k]
                     /\ runs'[r].writes[k] = runs[r].writes[k]
       IN  /\ caught =>
                /\ store' = store
                /\ IF k < Len(runs[r].rows)
                   THEN runs'[r].idx = k + 1 /\ runs'[r].pc = "sentiment"
                   ELSE runs'[r].pc = "done"
           /\ (runs'[r].pc = "done") =>
                \A j \in 1..Len(runs'[r].rows) : runs'[r].counted[j] >= 1]_vars

\* C25 witness: a loop over two rows has ended, both rows threw, and the two
\* rows are stored as they were inserted
C25_Witness ==
  \E r \in DOMAIN runs :
    /\ runs[r].pc = "done"
    /\ Len(runs[r].rows) = 2
    /\ \A k \in 1..2 :
         /\ runs[r].counted[k] = 1
         /\ runs[r].writes[k] = 0
         /\ runs[r].rows[k].id \in DOMAIN store
         /\ store[runs[r].rows[k].id].sentiment \in {Null, "neutral"}
         /\ store[runs[r].rows[k].id].topics = <<>>

\* C26: when the scan of a trigger finds no pending row, the trigger calls
\* none of startProcessing, incrementProcessed, completeProcessing: the five
\* fields of the tracker keep their values, no loop starts and no stored row
\* is written.
C26_EmptyScanFrame ==
  [][(/\ \/ (reply'.route = "process-ai" /\ reply'.status = 200 /\ ~reply'.scanFailed)
         \/ nextId' # nextId
      /\ commentsToProcess(store') = <<>>)
     => /\ tracker' = tracker
        /\ runs' = runs
        /\ \A i \in DOMAIN store : i \in DOMAIN store' /\ store'[i] = store[i]
        /\ (reply'.route = "process-ai") => store' = store]_vars

\* C26 witness: POST /api/process-ai found a Store with a row and none
\* pending, after an earlier run had ended: the tracker still shows that run
C26_Witness ==
  /\ reply.route = "process-ai"
  /\ reply.status = 200
  /\ ~reply.scanFailed
  /\ store # EmptyStore
  /\ commentsToProcess(store) = <<>>
  /\ tracker.total = 1
  /\ tracker.processed = 1
  /\ ~tracker.inProgress
  /\ tracker.startTime # NoTime

\* C27: a run has no cancellation or timeout: while an inference call of a
\* started run has not returned, inProgress stays true and POST
\* /api/process-ai is answered 409, and no operation takes the run or its
\* scanned rows away.
C27_HungRunBlocks ==
  [][\A r \in ActiveRuns :
       /\ r \in DOMAIN runs'
       /\ runs'[r].rows = runs[r].rows
       /\ runs'[r].idx >= runs[r].idx
       /\ (runs'[r].pc = runs[r].pc /\ runs'[r].idx = runs[r].idx)
            => /\ tracker'.inProgress
               /\ (reply'.route = "process-ai") => reply'.status = 409]_vars

\* C28: LocalLLM.analyzeBatch returns exactly one result per input comment,
\* in input order and with that comment's id, whatever the analysis and the
\* onProgress callback do; when every analysis returns and every onProgress
\* call returns normally, the callback is called with processed = 1, 2,
\* ..., n in this order.
C28_OneResultPerComment ==
  reply.route = "localLLM.analyzeBatch" =>
    LET comments == reply.given.comments
        n == Len(comments)
    IN  /\ Len(reply.results) = n
        /\ \A k \in 1..n : reply.results[k].id = comments[k].id
        /\ (/\ reply.given.hasProgress
            /\ \A k \in 1..n : IsString(comments[k].comment)
            /\ \A k \in 1..n : comments[k].progress = "returns")
             => reply.progress = [k \in 1..n |-> k]

\* C29: POST /api/upload/commit succeeds only for a session id that exists
\* and has not passed its expiresAt time; a session whose lifetime has
\* elapsed is rejected with 'Invalid or expired session' whether or not the
\* cleanup timer has removed it, and a committed session is gone (session
\* ids are not reused), so it cannot be committed again.
C29_CommitOnlyLiveSession ==
  [][(reply'.route = "upload/commit") =>
       LET id == reply'.session_id
           live == /\ id \in DOMAIN uploadSessions
                   /\ ~(uploadSessions[id].expiresAt < clock)
       IN  /\ (reply'.status = 200) => live
           /\ ~live => (reply'.status = 400
                        /\ reply'.error = "Invalid or expired session")
           /\ (reply'.status = 200) => id \notin DOMAIN uploadSessions'
           /\ \A j \in DOMAIN uploadSessions' : j <= clock']_vars

\* the parts of C29 that do not depend on the expiry time
C29_CommitOnce ==
  [][/\ (reply'.route = "upload/commit") =>
          /\ (reply'.status = 200) <=> (reply'.session_id \in DOMAIN uploadSessions)
          /\ reply'.session_id \notin DOMAIN uploadSessions'
     /\ \A j \in DOMAIN uploadSessions' : j <= clock'
     /\ \A j \in DOMAIN uploadSessions' \ DOMAIN uploadSessions : j > clock]_vars
====
